---- MODULE Spec2Model ----
(***************************************************************************)
(* A model of the Arabic light stemmer (arabic/stemmer/stemmer.go) and of  *)
(* the helpers it calls.  A Go string is a sequence of characters, each    *)
(* character a name such as "ALEF"; UTF8 gives the bytes of a character,   *)
(* so that len(s) (bytes) and len([]rune(s)) (characters) stay distinct.   *)
(***************************************************************************)
EXTENDS Integers, Sequences, FiniteSets, TLC

VARIABLES
    prefixList,      \* als.prefixList
    suffixList,      \* als.suffixList
    prefixesTree,    \* als.prefixesTree
    suffixesTree,    \* als.suffixesTree
    joker,           \* als.joker
    validAffixesList, \* als.validAffixesList
    prefixLetters,   \* als.prefixLetters
    suffixLetters,   \* als.suffixLetters
    infixLetters,    \* als.infixLetters
    maxPrefixLength, \* als.maxPrefixLength
    maxSuffixLength, \* als.maxSuffixLength
    minStemLength,   \* als.minStemLength
    pc,              \* "idle" | "run" | "done": position of the one call in progress
    op,              \* the entry point of the call: "none" | "LightStem" | "chooseRoot"
    word,            \* the call's argument
    seg,             \* what segment(word) returned to the entry point
    stars,           \* what transform2Stars(word) returned to the entry point
    stack,           \* the frames of getStem/chooseStem/verifyAffix/chooseRoot/... in progress
    result,          \* the outcome of the call once pc = "done"
    prev,            \* history: the last completed LightStem call with these lists
    call             \* a function applied by itself: its name, its arguments, what it returned

vars == <<prefixList, suffixList, prefixesTree, suffixesTree, joker, validAffixesList,
          prefixLetters, suffixLetters, infixLetters, maxPrefixLength, maxSuffixLength,
          minStemLength, pc, op, word, seg, stars, stack, result, prev, call>>

(***************************************************************************)
(* Bounds of the model.                                                    *)
(***************************************************************************)
MaxWordLen == 3

\* the longest stem handed to validStem by itself
MaxStemLen == 8

\* the largest minimum stem length handed to SetMinStemLength
MaxMinStem == 3

\* the longest list of candidate roots handed to the filtering of chooseRoot and to mostCommon
MaxRoots == 3

\* the longest verb handed to Normalize and the longest stem handed to IsVerbStamp
MaxVerbLen == 3

(***************************************************************************)
(* Characters.                                                             *)
(***************************************************************************)
ALEF == "ALEF"
LAM == "LAM"
KAF == "KAF"
TEH == "TEH"
BEH == "BEH"
YEH == "YEH"
WAW == "WAW"
NOON == "NOON"
HAMZA == "HAMZA"
ALEF_MADDA == "ALEF_MADDA"
ALEF_HAMZA_ABOVE == "ALEF_HAMZA_ABOVE"
TEH_MARBUTA == "TEH_MARBUTA"
ALEF_HAMZA_BELOW == "ALEF_HAMZA_BELOW"
WAW_HAMZA == "WAW_HAMZA"
YEH_HAMZA == "YEH_HAMZA"
ALEF_MAKSURA == "ALEF_MAKSURA"
FATHA == "FATHA"
LATIN_A == "a"
DASH == "-"
STAR == "*"

HASH == "#"
\* the first byte of a two-byte character, cut from it (no valid UTF-8 by itself)
FRAG_D8 == "BYTE_D8"
FRAG_D9 == "BYTE_D9"
\* U+FFFD, what []rune(s) gives for a byte that is no valid UTF-8
REPLACEMENT == "U+FFFD"
\* string(b) of a byte b of a two-byte character: a character of U+0080..U+00FF,
\* none of which is an Arabic letter (one name stands for all of them)
LATIN1 == "LATIN1"
\* one byte of a two-byte character, cut from it by a slice at byte offsets
STRAY == "STRAY_BYTE"

\* The UTF-8 encoding of each character (Go strings are byte strings).
UTF8(c) ==
    CASE c = ALEF -> <<216, 167>>
      [] c = LAM -> <<217, 132>>
      [] c = KAF -> <<217, 131>>
      [] c = TEH -> <<216, 170>>
      [] c = BEH -> <<216, 168>>
      [] c = YEH -> <<217, 138>>
      [] c = WAW -> <<217, 136>>
      [] c = NOON -> <<217, 134>>
      [] c = HAMZA -> <<216, 161>>
      [] c = ALEF_MADDA -> <<216, 162>>
      [] c = ALEF_HAMZA_ABOVE -> <<216, 163>>
      [] c = TEH_MARBUTA -> <<216, 169>>
      [] c = ALEF_HAMZA_BELOW -> <<216, 165>>
      [] c = WAW_HAMZA -> <<216, 164>>
      [] c = YEH_HAMZA -> <<216, 166>>
      [] c = ALEF_MAKSURA -> <<217, 137>>
      [] c = FATHA -> <<217, 142>>
      [] c = LATIN_A -> <<97>>
      [] c = DASH -> <<45>>
      [] c = STAR -> <<42>>
      [] c = HASH -> <<35>>
      [] c = FRAG_D8 -> <<216>>
      [] c = FRAG_D9 -> <<217>>
      [] c = REPLACEMENT -> <<239, 191, 189>>
      [] c = LATIN1 -> <<195, 128>>
      [] c = STRAY -> <<128>>

\* unicode.IsLetter: the diacritic (category Mn) and the punctuation are no letters.
IsLetter(c) == c \notin {FATHA, DASH, STAR, HASH, FRAG_D8, FRAG_D9, REPLACEMENT, STRAY}

\* constant.TASHKEEL, the diacritics
TASHKEEL == {FATHA}

(***************************************************************************)
(* Strings.                                                                *)
(***************************************************************************)
RECURSIVE Bytes(_)
Bytes(s) == IF s = <<>> THEN <<>> ELSE UTF8(Head(s)) \o Bytes(Tail(s))

\* len(s) of a Go string: its length in bytes
ByteLen(s) == Len(Bytes(s))

\* s[lo:hi] of a []rune, both offsets 0-based; the caller checks the bounds
Slice(s, lo, hi) == SubSeq(s, lo + 1, hi)

ToSet(s) == {s[i] : i \in 1..Len(s)}

HasPrefix(s, p) == Len(p) <= Len(s) /\ SubSeq(s, 1, Len(p)) = p

HasSuffix(s, p) == Len(p) <= Len(s) /\ SubSeq(s, Len(s) - Len(p) + 1, Len(s)) = p

RECURSIVE Filter(_, _)
Filter(s, drop) ==
    IF s = <<>> THEN <<>>
    ELSE IF Head(s) \in drop THEN Filter(Tail(s), drop)
    ELSE <<Head(s)>> \o Filter(Tail(s), drop)

\* strings.ReplaceAll(s, c, by) for a one-character pattern c
RECURSIVE ReplaceChar(_, _, _)
ReplaceChar(s, c, by) ==
    IF s = <<>> THEN <<>>
    ELSE (IF Head(s) = c THEN by ELSE <<Head(s)>>) \o ReplaceChar(Tail(s), c, by)

\* []rune(s), and string(...) of it: a byte that is no valid UTF-8 becomes U+FFFD
Decode(s) == [i \in 1..Len(s) |-> IF s[i] \in {FRAG_D8, FRAG_D9} THEN REPLACEMENT ELSE s[i]]

\* s[:1] of a string of two bytes or more: its first byte
FirstByte(s) ==
    IF Len(UTF8(Head(s))) = 1 THEN <<Head(s)>>
    ELSE IF UTF8(Head(s))[1] = 216 THEN <<FRAG_D8>>
    ELSE <<FRAG_D9>>

\* regexp [^class] replaced by the joker
MaskOutside(s, class, jkr) ==
    [i \in 1..Len(s) |-> IF s[i] \in class THEN s[i] ELSE jkr]

Min(a, b) == IF a < b THEN a ELSE b

Max(a, b) == IF a > b THEN a ELSE b

MinFromSlice(ints) == CHOOSE v \in ToSet(ints) : \A u \in ToSet(ints) : v <= u

MaxFromSlice(ints) == CHOOSE v \in ToSet(ints) : \A u \in ToSet(ints) : v >= u

Contains(list, item) == \E i \in 1..Len(list) : list[i] = item

AffixInList(affix, list) == \E i \in 1..Len(list) : list[i] = affix

(***************************************************************************)
(* WordProcessor                                                           *)
(***************************************************************************)
IsAlpha(w) == \A i \in 1..Len(w) : IsLetter(w[i])

IsVocalized(w) == ~IsAlpha(w) /\ \E i \in 1..Len(w) : w[i] \in TASHKEEL

StripTashkeel(text) ==
    IF text = <<>> THEN text
    ELSE IF IsVocalized(text) THEN Filter(text, TASHKEEL)
    ELSE text

(***************************************************************************)
(* Configuration data of the constant package, the stopword table, the     *)
(* verb list and the root dictionary.                                      *)
(***************************************************************************)
DEFAULT_PREFIX_LIST == << <<ALEF, LAM>>, <<LAM>>, <<KAF>>, <<KAF, ALEF, LAM>>, <<YEH>> >>

DEFAULT_SUFFIX_LIST == << <<>>, <<WAW, NOON>>, <<NOON>> >>

DEFAULT_PREFIX_LETTERS == {ALEF, LAM, KAF, YEH, TEH, NOON, WAW, BEH, ALEF_HAMZA_ABOVE}

DEFAULT_SUFFIX_LETTERS == {ALEF, KAF, YEH, TEH, NOON, WAW, TEH_MARBUTA}

DEFAULT_INFIX_LETTERS == {ALEF, WAW, YEH, TEH}

DEFAULT_MAX_PREFIX == 4

DEFAULT_MAX_SUFFIX == 6

DEFAULT_MIN_STEM == 2

DEFAULT_JOKER == STAR

\* "prefix-suffix" strings
NOUN_AFFIX_LIST ==
    << <<DASH>>, <<ALEF, LAM, DASH>>, <<LAM, DASH>>, <<KAF, DASH>>,
       <<KAF, ALEF, LAM, DASH>>, <<DASH, WAW, NOON>> >>

VERB_AFFIX_LIST ==
    << <<DASH>>, <<YEH, DASH>>, <<YEH, DASH, WAW, NOON>>, <<DASH, WAW, NOON>>,
       <<DASH, NOON>>, <<YEH, DASH, NOON>> >>

INITIAL_VERB_LIST == << <<KAF, TEH, BEH>>, <<TEH, ALEF, BEH>> >>

ROOTS == {<<KAF, TEH, BEH>>}

\* stopwords.json: word -> its "stem" field
StopwordTable ==
    (<<LAM, ALEF>> :> <<LAM, FATHA, ALEF>>) @@ (<<KAF, LAM>> :> <<KAF, LAM>>)

(***************************************************************************)
(* StopwordManager                                                         *)
(***************************************************************************)
IsStopword(w) == w \in DOMAIN StopwordTable

StopStem(w) == IF w \in DOMAIN StopwordTable THEN StripTashkeel(StopwordTable[w]) ELSE <<>>

StopRoot(w) == StopStem(w)

(***************************************************************************)
(* The affix tries.  A trie is the set of its nodes, each named by the     *)
(* path of characters leading to it, and the set of the nodes that carry   *)
(* the "#" terminal key.                                                   *)
(***************************************************************************)
Reverse(s) == [i \in 1..Len(s) |-> s[Len(s) + 1 - i]]

EmptyTree == [nodes |-> {<<>>}, term |-> {}]

createPrefixTree(list) ==
    [nodes |-> {<<>>} \cup UNION {{SubSeq(list[i], 1, k) : k \in 0..Len(list[i])} : i \in 1..Len(list)},
     term |-> {list[i] : i \in 1..Len(list)}]

\* the suffixes are indexed from their last character backwards
createSuffixTree(list) ==
    [nodes |-> {<<>>} \cup UNION {{SubSeq(Reverse(list[i]), 1, k) : k \in 0..Len(list[i])}
                                    : i \in 1..Len(list)},
     term |-> {Reverse(list[i]) : i \in 1..Len(list)}]

\* C8, the slip looked for: createPrefixTree builds the tree and stores it nowhere
PrefixTreeKept(oldTree, newList) == oldTree

\* SetPrefixList: createPrefixTree stores the tree it built in als.prefixesTree
PrefixTreeAfterSet(oldTree, newList) == createPrefixTree(newList)

\* SetSuffixList: createSuffixTree returns the tree it built and stores it nowhere
SuffixTreeAfterSet(oldTree, newList) == oldTree

(***************************************************************************)
(* lookupPrefixes / lookupSuffixes                                         *)
(***************************************************************************)
\* One turn of the loop of lookupPrefixes: i counts characters, the loop bound
\* len(word) counts bytes, runeWord[i] panics once i reaches len(runeWord).
\* The branch is the map a terminal node keeps under its "#" key, reached when
\* the word itself has the character "#" there: map[string]interface{}{affix: "#"}.
\* (No affix of the lists holds "#", so a path ends with "#" only this way.)
InHash(branch) == branch # <<>> /\ branch[Len(branch)] = HASH

\* _, ok := branch[char]
HasKey(tree, branch, c) ==
    IF InHash(branch) THEN <<c>> = SubSeq(branch, 1, Len(branch) - 1)
    ELSE IF c = HASH THEN branch \in tree.term
    ELSE Append(branch, c) \in tree.nodes

\* _, hasHash := branch["#"]
HasHash(tree, branch) == ~InHash(branch) /\ branch \in tree.term

\* branch[char].(map[string]interface{}) panics when the value is the string "#"
RECURSIVE lookupPrefixesFrom(_, _, _, _, _)
lookupPrefixesFrom(w, tree, i, branch, lefts) ==
    IF i < ByteLen(w)
    THEN IF i >= Len(w) THEN [panic |-> TRUE, offs |-> lefts]
         ELSE IF HasKey(tree, branch, w[i + 1])
              THEN LET seen == IF HasHash(tree, branch) THEN Append(lefts, i) ELSE lefts
                   IN  IF InHash(branch) THEN [panic |-> TRUE, offs |-> seen]
                       ELSE lookupPrefixesFrom(w, tree, i + 1, Append(branch, w[i + 1]), seen)
              ELSE [panic |-> FALSE,
                    offs |-> IF HasHash(tree, branch) THEN Append(lefts, i) ELSE lefts]
    ELSE [panic |-> FALSE, offs |-> lefts]

lookupPrefixes(w, tree) == lookupPrefixesFrom(w, tree, 0, <<>>, <<0>>)

\* C13, the slip looked for: the walk moves als.prefixesTree itself down the
\* branch of the word's first character
prefixesTreeWalked(tree, w) ==
    IF w # <<>> /\ <<w[1]>> \in tree.nodes
    THEN [nodes |-> {Tail(n) : n \in {m \in tree.nodes : m # <<>> /\ m[1] = w[1]}},
          term |-> {Tail(n) : n \in {m \in tree.term : m # <<>> /\ m[1] = w[1]}}]
    ELSE tree

\* als.prefixesTree after lookupPrefixes(w): the walk uses the local variable
\* branch (branch := als.prefixesTree) and assigns nothing to the stemmer
prefixesTreeAfterLookup(tree, w) == tree

RECURSIVE lookupSuffixesFrom(_, _, _, _, _)
lookupSuffixesFrom(w, tree, i, branch, rights) ==
    IF i >= 0
    THEN IF HasKey(tree, branch, w[i + 1])
         THEN LET seen == IF HasHash(tree, branch) THEN Append(rights, i + 1) ELSE rights
              IN  IF InHash(branch) THEN [panic |-> TRUE, offs |-> seen]
                  ELSE lookupSuffixesFrom(w, tree, i - 1, Append(branch, w[i + 1]), seen)
         ELSE [panic |-> FALSE,
               offs |-> IF HasHash(tree, branch) THEN Append(rights, i + 1) ELSE rights]
    ELSE [panic |-> FALSE, offs |-> rights]

lookupSuffixes(w, tree) == lookupSuffixesFrom(w, tree, Len(w) - 1, <<>>, <<>>)

(***************************************************************************)
(* segment                                                                 *)
(***************************************************************************)
\* A map[int][][2]int is a function from its keys to non-empty sequences of pairs.
EmptyMap == [k \in {} |-> <<>>]

\* C15, the slip looked for: the pair is appended without asking isSeen
AddSegmentUnseen(sl, i, j) ==
    IF j >= i + 2
    THEN IF i \in DOMAIN sl
         THEN [sl EXCEPT ![i] = Append(@, <<i, j>>)]
         ELSE [k \in DOMAIN sl \cup {i} |-> IF k = i THEN << <<i, j>> >> ELSE sl[k]]
    ELSE sl

\* segmentList[i] = append(segmentList[i], segment), unless isSeen(i, segment)
AddSegment(sl, i, j) ==
    IF j >= i + 2
    THEN IF i \in DOMAIN sl
         THEN IF Contains(sl[i], <<i, j>>) THEN sl
              ELSE [sl EXCEPT ![i] = Append(@, <<i, j>>)]
         ELSE [k \in DOMAIN sl \cup {i} |-> IF k = i THEN << <<i, j>> >> ELSE sl[k]]
    ELSE sl

RECURSIVE AddRights(_, _, _)
AddRights(sl, i, rights) ==
    IF rights = <<>> THEN sl
    ELSE AddRights(AddSegment(sl, i, Head(rights)), i, Tail(rights))

RECURSIVE AddLefts(_, _, _)
AddLefts(sl, lefts, rights) ==
    IF lefts = <<>> THEN sl
    ELSE AddLefts(AddRights(sl, Head(lefts), rights), Tail(lefts), rights)

\* every pair of a segment map
Pairs(ls) == UNION {ToSet(ls[k]) : k \in DOMAIN ls}

getLeftRight(ls) ==
    IF DOMAIN ls = {} THEN <<-1, -1>>
    ELSE <<CHOOSE l \in DOMAIN ls : \A k \in DOMAIN ls : k <= l,
           CHOOSE r \in {p[2] : p \in Pairs(ls)} : \A p \in Pairs(ls) : r <= p[2]>>

segment(w, pTree, sTree) ==
    LET unvocalized == StripTashkeel(w)
        w2 == ReplaceChar(w, ALEF_MADDA, <<HAMZA, ALEF>>)
        lp == lookupPrefixes(w2, pTree)
        ls == lookupSuffixes(w2, sTree)
        rights == ls.offs
        segmentList == AddLefts(EmptyMap, lp.offs, rights)
        lr == getLeftRight(segmentList)
    IN  IF lp.panic
        THEN [panic |-> TRUE, segmentList |-> EmptyMap, unvocalized |-> unvocalized,
              left |-> -1, right |-> -1, lefts |-> lp.offs, rights |-> <<>>]
        ELSE IF ls.panic
        THEN [panic |-> TRUE, segmentList |-> EmptyMap, unvocalized |-> unvocalized,
              left |-> -1, right |-> -1, lefts |-> lp.offs, rights |-> rights]
        ELSE [panic |-> FALSE, segmentList |-> segmentList, unvocalized |-> unvocalized,
              left |-> lr[1], right |-> lr[2], lefts |-> lp.offs, rights |-> rights]

(***************************************************************************)
(* transform2Stars                                                         *)
(***************************************************************************)
\* the first and the last offset of the joker in a []rune, -1 when it has none
FirstJoker(s, jkr) ==
    IF \E i \in 1..Len(s) : s[i] = jkr
    THEN (CHOOSE i \in 1..Len(s) : s[i] = jkr /\ \A k \in 1..(i - 1) : s[k] # jkr) - 1
    ELSE -1

LastJoker(s, jkr) ==
    IF \E i \in 1..Len(s) : s[i] = jkr
    THEN (CHOOSE i \in 1..Len(s) : s[i] = jkr /\ \A k \in (i + 1)..Len(s) : s[k] # jkr) - 1
    ELSE -1

\* for prefix != "" && !Contains(prefixList, prefix) { drop the last character }
RECURSIVE TrimToPrefix(_, _)
TrimToPrefix(prefix, pList) ==
    IF prefix # <<>> /\ ~Contains(pList, prefix)
    THEN TrimToPrefix(SubSeq(prefix, 1, Len(prefix) - 1), pList)
    ELSE prefix

\* for suffix != "" && !Contains(suffixList, suffix) { drop the first character }
RECURSIVE TrimToSuffix(_, _)
TrimToSuffix(suffix, sList) ==
    IF suffix # <<>> /\ ~Contains(sList, suffix)
    THEN TrimToSuffix(Tail(suffix), sList)
    ELSE suffix

StarsPanic(unvocalized) ==
    [panic |-> TRUE, starword |-> <<>>, unvocalized |-> unvocalized, left |-> -1, right |-> -1]

\* lines 353-369: the first masking pass, run when the word holds a joker
StarsFirstPass(word1, jkr) ==
    LET w1 == Decode(word1)                 \* runeWord := []rune(word)
        jokerRune == Decode(<<jkr>>)[1]   \* []rune(als.joker)[0]
        n == Len(w1)
        left == Min(FirstJoker(w1, jokerRune), maxPrefixLength - 1)
        right == Max(LastJoker(w1, jokerRune) + 1, n - maxSuffixLength)
    IN  IF FirstJoker(w1, jokerRune) < 0 THEN [panic |-> FALSE, w |-> word1]
        ELSE IF left < 0 \/ left > right \/ right > n THEN [panic |-> TRUE, w |-> w1]
        ELSE [panic |-> FALSE,
              w |-> MaskOutside(Slice(w1, 0, left), prefixLetters, jkr)
                    \o (IF infixLetters # {}
                        THEN MaskOutside(Slice(w1, left, right), infixLetters, jkr)
                        ELSE Slice(w1, left, right))
                    \o MaskOutside(Slice(w1, right, n), suffixLetters, jkr)]

\* lines 371-409: the window from the trimmed prefix and suffix
StarsSecondPass(word2, unvocalized, jkr, pList, sList) ==
    LET w2 == Decode(word2)                 \* runeWord = []rune(word)
        jokerRune == Decode(<<jkr>>)[1]
        n == Len(w2)
        left0 == IF FirstJoker(w2, jokerRune) < 0
                 THEN Min(maxPrefixLength, n - 2)
                 ELSE FirstJoker(w2, jokerRune)
        right0 == LastJoker(w2, jokerRune)
    IN  IF left0 < 0
        THEN [panic |-> FALSE, starword |-> word2, unvocalized |-> unvocalized,
              left |-> left0, right |-> right0]
        ELSE IF left0 > n THEN StarsPanic(unvocalized)
        ELSE LET prefix == TrimToPrefix(Slice(w2, 0, left0), pList)
                 right1 == IF right0 < 0
                           THEN Max(Len(prefix), n - maxSuffixLength)
                           ELSE right0
             IN  IF right1 < 0 \/ right1 > n THEN StarsPanic(unvocalized)
                 ELSE LET suffix == TrimToSuffix(Slice(w2, right1, n), sList)
                          left == Len(prefix)
                          right == n - Len(suffix)
                      IN  IF left > right THEN StarsPanic(unvocalized)
                          ELSE [panic |-> FALSE,
                                starword |-> prefix
                                    \o (IF infixLetters # {}
                                        THEN MaskOutside(Slice(w2, left, right),
                                                         infixLetters, jkr)
                                        ELSE Slice(w2, left, right))
                                    \o suffix,
                                unvocalized |-> unvocalized, left |-> left, right |-> right]

\* jk is als.joker, a string of one character or none
transform2Stars(w, pList, sList, jk) ==
    LET unvocalized == StripTashkeel(w)
        w0 == ReplaceChar(unvocalized, ALEF_MADDA, <<ALEF_HAMZA_ABOVE, ALEF>>)
    IN  IF jk = <<>> THEN StarsPanic(unvocalized)   \* line 339: []rune(als.joker)[0]
        ELSE LET w1 == MaskOutside(w0, prefixLetters \cup suffixLetters, jk[1])
                 first == StarsFirstPass(w1, jk[1])
             IN  IF first.panic THEN StarsPanic(unvocalized)
                 ELSE StarsSecondPass(first.w, unvocalized, jk[1], pList, sList)

(***************************************************************************)
(* VerbNormalizer and VerbListManager                                      *)
(***************************************************************************)
\* regexp [class] replaced by the one character by
MapClass(s, class, by) == [i \in 1..Len(s) |-> IF s[i] \in class THEN by ELSE s[i]]

normalizeHamza(verb) ==
    MapClass(verb, {ALEF_HAMZA_ABOVE, ALEF_HAMZA_BELOW, HAMZA, WAW_HAMZA, YEH_HAMZA, ALEF_MADDA},
             HAMZA)

removeWeakLetters(verb) == Filter(verb, {ALEF, WAW, YEH, ALEF_MAKSURA})

\* verb[len(verb)-1] == verb[len(verb)-2] compares the last two BYTES and verb[:len(verb)-1]
\* cuts one byte: a cut inside a two-byte character leaves a broken character behind.
removeDoubleLetterAtEnd(verb) ==
    LET b == Bytes(verb)
        n == Len(b)
    IN  IF n > 1 /\ b[n] = b[n - 1]
        THEN IF Len(UTF8(verb[Len(verb)])) = 1
             THEN SubSeq(verb, 1, Len(verb) - 1)
             ELSE Append(SubSeq(verb, 1, Len(verb) - 1), "BROKEN")
        ELSE verb

Normalize(verb) ==
    IF verb = <<>> THEN <<>>
    ELSE LET v1 == StripTashkeel(verb)
             v2 == IF ByteLen(v1) = 4 /\ HasPrefix(v1, <<ALEF_HAMZA_ABOVE>>) THEN Tail(v1) ELSE v1
         IN  IF v1 = <<>> THEN <<>>
             ELSE removeDoubleLetterAtEnd(removeWeakLetters(normalizeHamza(v2)))

\* initializeVerbList: the list holds the normalized verbs
VerbList == [i \in 1..Len(INITIAL_VERB_LIST) |-> Normalize(INITIAL_VERB_LIST[i])]

IsVerbStamp(stem) == Contains(VerbList, Normalize(stem))

(***************************************************************************)
(* getPrefix, getSuffix, validStem                                         *)
(***************************************************************************)
getPrefix(unvocalized, left, prefixIndex) ==
    IF prefixIndex < 0
    THEN IF left >= 0 /\ left <= Len(unvocalized) THEN Slice(unvocalized, 0, left)
         ELSE unvocalized
    ELSE IF prefixIndex <= Len(unvocalized) THEN Slice(unvocalized, 0, prefixIndex)
         ELSE unvocalized

getSuffix(unvocalized, right, suffixIndex) ==
    IF suffixIndex < 0
    THEN IF right >= 0 /\ right <= Len(unvocalized)
         THEN Slice(unvocalized, right, Len(unvocalized))
         ELSE <<>>
    ELSE IF suffixIndex <= Len(unvocalized)
         THEN Slice(unvocalized, suffixIndex, Len(unvocalized))
         ELSE <<>>

\* C21, the slip looked for: a stem of 6 letters need not start with Alef
validVerbStemAnyHead(stem, prefix) ==
    LET stemLength == Len(stem)
    IN  /\ ~(stemLength > 6 \/ stemLength < 2)
        /\ TEH_MARBUTA \notin ToSet(stem)
        /\ ~(/\ stemLength = 5
             /\ ~HasPrefix(stem, <<ALEF>>)
             /\ ~HasPrefix(stem, <<TEH>>)
             /\ \/ HasSuffix(prefix, <<YEH>>)
                \/ HasSuffix(prefix, <<TEH>>)
                \/ HasSuffix(prefix, <<NOON>>)
                \/ HasSuffix(prefix, <<ALEF_HAMZA_ABOVE>>))
        /\ ~(/\ HasPrefix(stem, <<ALEF>>)
             /\ Len(prefix) > 0
             /\ prefix[Len(prefix)] \in {YEH, NOON, TEH, ALEF_HAMZA_ABOVE, ALEF})
        /\ IsVerbStamp(stem)

validVerbStem(stem, prefix) ==
    LET stemLength == Len(stem)
    IN  /\ ~(stemLength > 6 \/ stemLength < 2)
        /\ TEH_MARBUTA \notin ToSet(stem)
        /\ ~(stemLength = 6 /\ ~HasPrefix(stem, <<ALEF>>))
        /\ ~(/\ stemLength = 5
             /\ ~HasPrefix(stem, <<ALEF>>)
             /\ ~HasPrefix(stem, <<TEH>>)
             /\ \/ HasSuffix(prefix, <<YEH>>)
                \/ HasSuffix(prefix, <<TEH>>)
                \/ HasSuffix(prefix, <<NOON>>)
                \/ HasSuffix(prefix, <<ALEF_HAMZA_ABOVE>>))
        /\ ~(/\ HasPrefix(stem, <<ALEF>>)
             /\ Len(prefix) > 0
             /\ prefix[Len(prefix)] \in {YEH, NOON, TEH, ALEF_HAMZA_ABOVE, ALEF})
        /\ IsVerbStamp(stem)

validStem(stem, tag, prefix) ==
    IF stem = <<>> THEN FALSE
    ELSE IF tag = "verb" THEN validVerbStem(stem, prefix)
    ELSE IF tag = "noun" THEN ~(Len(stem) >= 8)
    ELSE TRUE

\* C20, the slip looked for: the inner branch, valid as a verb and as a noun,
\* returns false
verifyAffixNotBoth(prefix, suffix, stem) ==
    LET affix == prefix \o <<DASH>> \o suffix
    IN  IF AffixInList(affix, VERB_AFFIX_LIST) /\ validStem(stem, "verb", prefix)
        THEN IF AffixInList(affix, NOUN_AFFIX_LIST) /\ validStem(stem, "noun", prefix)
             THEN FALSE
             ELSE TRUE
        ELSE IF AffixInList(affix, NOUN_AFFIX_LIST) /\ validStem(stem, "noun", prefix)
             THEN TRUE
             ELSE FALSE

\* verifyAffix, once getStem has returned the stem: the three returns of true
\* (valid as both, valid as a verb, valid as a noun) and the return of false
verifyAffixOn(prefix, suffix, stem) ==
    LET affix == prefix \o <<DASH>> \o suffix
    IN  IF AffixInList(affix, VERB_AFFIX_LIST) /\ validStem(stem, "verb", prefix)
        THEN IF AffixInList(affix, NOUN_AFFIX_LIST) /\ validStem(stem, "noun", prefix)
             THEN TRUE
             ELSE TRUE
        ELSE IF AffixInList(affix, NOUN_AFFIX_LIST) /\ validStem(stem, "noun", prefix)
             THEN TRUE
             ELSE FALSE

(***************************************************************************)
(* mostCommon, isRootLengthValid, IsRoot                                   *)
(***************************************************************************)
\* Go compares strings byte by byte
RECURSIVE SeqLess(_, _)
SeqLess(a, b) ==
    IF b = <<>> THEN FALSE
    ELSE IF a = <<>> THEN TRUE
    ELSE IF Head(a) # Head(b) THEN Head(a) < Head(b)
    ELSE SeqLess(Tail(a), Tail(b))

StringLess(a, b) == SeqLess(Bytes(a), Bytes(b))

Count(lst, item) == Cardinality({i \in 1..Len(lst) : lst[i] = item})

SelectByteLen3(lst) == SelectSeq(lst, LAMBDA item : ByteLen(item) = 3)

\* after sort.Strings the first element with the highest count wins
mostCommon(lst0) ==
    LET lst == IF SelectByteLen3(lst0) # <<>> THEN SelectByteLen3(lst0) ELSE lst0
        top == {x \in ToSet(lst) : \A y \in ToSet(lst) : Count(lst, y) <= Count(lst, x)}
    IN  IF lst = <<>> THEN <<>>
        ELSE CHOOSE x \in top : \A y \in top : y = x \/ StringLess(x, y)

isRootLengthValid(root) == ByteLen(root) >= 2 /\ ByteLen(root) <= 4

IsRoot(w) == w \in ROOTS

\* C26, the slip looked for: candidates none of which is in the dictionary give no root
chooseAmongRootsOrNone(roots) ==
    LET byLength == SelectSeq(roots, isRootLengthValid)
        roots1 == IF Len(byLength) > 0 THEN byLength ELSE roots
        byDict == SelectSeq(roots1, IsRoot)
    IN  IF Len(byDict) > 0 THEN mostCommon(byDict) ELSE <<>>

\* lines 766-791 of chooseRoot: the two filters, then mostCommon
chooseAmongRoots(roots) ==
    LET byLength == SelectSeq(roots, isRootLengthValid)
        roots1 == IF Len(byLength) > 0 THEN byLength ELSE roots
        byDict == SelectSeq(roots1, IsRoot)
        roots2 == IF Len(byDict) > 0 THEN byDict ELSE roots1
    IN  mostCommon(roots2)

(***************************************************************************)
(* The calls in progress.  getStem, chooseStem and verifyAffix call each   *)
(* other, and so do chooseRoot, getAffixTuple and getRoot: each call in    *)
(* progress is a frame of the stack, the last frame being the running one. *)
(* word, unvocalized, stemLeft, stemRight and segmentList are handed down  *)
(* unchanged by every call, so they are kept once (word, stars, seg).      *)
(***************************************************************************)
Frame(fn, st, left, right, pi, si) ==
    [fn |-> fn, st |-> st, left |-> left, right |-> right, pi |-> pi, si |-> si,
     keys |-> {}, cur |-> <<>>, valid |-> EmptyMap,
     prefix |-> <<>>, suffix |-> <<>>, root |-> <<>>, roots |-> <<>>]

\* kind: "ok" a value was returned, "panic" a run-time panic unwound the call,
\* "diverge" the call re-entered itself with the arguments it is already evaluating.
\* via, left, right, accepted: how the outermost chooseStem came to the value.
Outcome(kind, val, via, left, right, accepted) ==
    [kind |-> kind, val |-> val, via |-> via, left |-> left, right |-> right,
     accepted |-> accepted]

NoResult == Outcome("none", <<>>, "none", -1, -1, {})

Panic(where) == Outcome("panic", <<>>, where, -1, -1, {})

Diverge(where) == Outcome("diverge", <<>>, where, -1, -1, {})

Top == stack[Len(stack)]

Pop(stk) == SubSeq(stk, 1, Len(stk) - 1)

SetTop(stk, f) == [stk EXCEPT ![Len(stk)] = f]

\* C6, the slip looked for: the map is made anew for each accepted segment, so
\* that what it holds at the end depends on the order of the visit
AddValidAnew(valid, li, ri) == [k \in {li} |-> << <<li, ri>> >>]

\* validSegList[leftIndex] = append(validSegList[leftIndex], [2]int{leftIndex, rightIndex})
AddValid(valid, li, ri) ==
    IF li \in DOMAIN valid THEN [valid EXCEPT ![li] = Append(@, <<li, ri>>)]
    ELSE [k \in DOMAIN valid \cup {li} |-> IF k = li THEN << <<li, ri>> >> ELSE valid[k]]

\* A callee returns v to the frames of stk: getStem and getRoot hand the value of the
\* call they made to their own caller, verifyAffix decides and chooseStem records the
\* segment, getAffixTuple goes on to its next field.
RECURSIVE Deliver(_, _)
Deliver(stk, v) ==
    IF stk = <<>> THEN [stack |-> <<>>, done |-> TRUE, result |-> v]
    ELSE LET f == stk[Len(stk)]
         IN  IF f.fn \in {"getStem", "getRoot"} THEN Deliver(Pop(stk), v)
             ELSE IF f.fn = "verifyAffix"
             THEN LET below == Pop(stk)
                      g == below[Len(below)]
                  IN  [stack |-> IF verifyAffixOn(f.prefix, f.suffix, v.val)
                                 THEN SetTop(below, [g EXCEPT !.valid = AddValid(@, f.pi, f.si)])
                                 ELSE below,
                       done |-> FALSE, result |-> NoResult]
             ELSE IF f.fn = "getAffixTuple" /\ f.st = "stem"
             THEN [stack |-> SetTop(stk, [f EXCEPT !.st = "root"]),
                   done |-> FALSE, result |-> NoResult]
             ELSE \* getAffixTuple, its "root" field: the tuple goes to getAffixList
                  LET below == Pop(stk)
                      g == below[Len(below)]
                  IN  [stack |-> SetTop(below, [g EXCEPT !.roots = Append(@, v.val)]),
                       done |-> FALSE, result |-> NoResult]

(***************************************************************************)
(* Inputs.                                                                 *)
(***************************************************************************)
EnumChars == {ALEF, LAM, KAF, FATHA, LATIN_A}

ScenarioWords ==
    { <<ALEF, LAM, KAF, ALEF, TEH, BEH>>,          \* "الكاتب"
      <<YEH, KAF, TEH, BEH, WAW, NOON>>,           \* "يكتبون"
      <<LAM, ALEF_MADDA, KAF>>,
      <<KAF, LAM>>,
      \* "كالبون": the prefix "كال" and the suffix "ون" leave one letter between them
      <<KAF, ALEF, LAM, BEH, WAW, NOON>>,
      \* eight letters and a diacritic: too long a stem for a verb and for a noun
      <<BEH, BEH, BEH, BEH, BEH, BEH, BEH, BEH, FATHA>> }

Words == UNION {[1..n -> EnumChars] : n \in 0..MaxWordLen} \cup ScenarioWords

\* the strings handed to SetJoker
Jokers == {<<>>, <<LATIN_A>>, <<KAF>>, <<ALEF, LATIN_A>>, <<STAR, STAR>>}

\* the tables handed to SetValidAffixesList
AffixTables == {NOUN_AFFIX_LIST \o VERB_AFFIX_LIST, << <<YEH, DASH>> >>}

\* the lists handed to SetPrefixList and SetSuffixList
PrefixLists == {DEFAULT_PREFIX_LIST, << <<>>, <<LATIN_A>>, <<LAM, ALEF>> >>}

SuffixLists == {DEFAULT_SUFFIX_LIST, << <<ALEF>>, <<NOON>> >>}

NoSeg ==
    [panic |-> FALSE, segmentList |-> EmptyMap, unvocalized |-> <<>>,
     left |-> -1, right |-> -1, lefts |-> <<>>, rights |-> <<>>]

NoStars ==
    [panic |-> FALSE, starword |-> <<>>, unvocalized |-> <<>>, left |-> -1, right |-> -1]

NoPrev == [set |-> FALSE, word |-> <<>>, result |-> NoResult, window |-> <<-1, -1>>]

\* no function has been applied by itself
NoCall == [fn |-> "none", args |-> <<>>, ret |-> <<>>]

(***************************************************************************)
(* NewArabicLightStemmer                                                   *)
(***************************************************************************)
Init ==
    /\ prefixList = DEFAULT_PREFIX_LIST
    /\ suffixList = DEFAULT_SUFFIX_LIST
    /\ prefixesTree = createPrefixTree(DEFAULT_PREFIX_LIST)
    /\ suffixesTree = createSuffixTree(DEFAULT_SUFFIX_LIST)
    /\ joker = <<DEFAULT_JOKER>>
    /\ validAffixesList = NOUN_AFFIX_LIST \o VERB_AFFIX_LIST
    /\ prefixLetters = DEFAULT_PREFIX_LETTERS
    /\ suffixLetters = DEFAULT_SUFFIX_LETTERS
    /\ infixLetters = DEFAULT_INFIX_LETTERS
    /\ maxPrefixLength = DEFAULT_MAX_PREFIX
    /\ maxSuffixLength = DEFAULT_MAX_SUFFIX
    /\ minStemLength = DEFAULT_MIN_STEM
    /\ pc = "idle"
    /\ op = "none"
    /\ word = <<>>
    /\ seg = NoSeg
    /\ stars = NoStars
    /\ stack = <<>>
    /\ result = NoResult
    /\ prev = NoPrev
    /\ call = NoCall

\* the letter classes and the limits
Window == <<prefixLetters, suffixLetters, infixLetters, maxPrefixLength, maxSuffixLength,
            minStemLength>>

Config == <<prefixList, suffixList, prefixesTree, suffixesTree, joker, validAffixesList, Window>>

CallVars == <<op, word, seg, stars, call>>

ResetCall ==
    /\ pc' = "idle"
    /\ call' = NoCall
    /\ op' = "none"
    /\ word' = <<>>
    /\ seg' = NoSeg
    /\ stars' = NoStars
    /\ stack' = <<>>
    /\ result' = NoResult
    /\ prev' = NoPrev

(***************************************************************************)
(* The setters                                                             *)
(***************************************************************************)
SetPrefixList(newPrefixList) ==
    /\ pc # "run"
    /\ prefixList' = newPrefixList
    /\ prefixesTree' = PrefixTreeAfterSet(prefixesTree, newPrefixList)
    /\ UNCHANGED <<suffixList, suffixesTree, joker, validAffixesList, Window>>
    /\ ResetCall

SetSuffixList(newSuffixList) ==
    /\ pc # "run"
    /\ suffixList' = newSuffixList
    /\ suffixesTree' = SuffixTreeAfterSet(suffixesTree, newSuffixList)
    /\ UNCHANGED <<prefixList, prefixesTree, joker, validAffixesList, Window>>
    /\ ResetCall

\* if len(newJoker) > 1 { newJoker = newJoker[:1] }: len counts bytes, [:1] cuts a byte
JokerAfterSet(newJoker) == IF ByteLen(newJoker) > 1 THEN FirstByte(newJoker) ELSE newJoker

SetJoker(newJoker) ==
    /\ pc # "run"
    /\ joker' = JokerAfterSet(newJoker)
    /\ UNCHANGED <<prefixList, prefixesTree, suffixList, suffixesTree, validAffixesList, Window>>
    /\ ResetCall

SetValidAffixesList(newValidAffixesList) ==
    /\ pc # "run"
    /\ validAffixesList' = newValidAffixesList
    /\ UNCHANGED <<prefixList, prefixesTree, suffixList, suffixesTree, joker, Window>>
    /\ ResetCall

\* the call that ended, if any, is remembered while the letter classes and the
\* limits of the window are set
KeepOutcome ==
    /\ pc' = "idle"
    /\ op' = "none"
    /\ word' = <<>>
    /\ seg' = NoSeg
    /\ stars' = NoStars
    /\ stack' = <<>>
    /\ result' = NoResult
    /\ call' = NoCall
    /\ prev' = IF pc = "done" /\ op = "LightStem"
               THEN [set |-> TRUE, word |-> word, result |-> result,
                     window |-> <<stars.left, stars.right>>]
               ELSE prev

SetPrefixLetters(newPrefixLetters) ==
    /\ pc # "run"
    /\ prefixLetters' = newPrefixLetters
    /\ UNCHANGED <<prefixList, prefixesTree, suffixList, suffixesTree, joker, validAffixesList,
                   suffixLetters, infixLetters, maxPrefixLength, maxSuffixLength, minStemLength>>
    /\ KeepOutcome

SetSuffixLetters(newSuffixLetters) ==
    /\ pc # "run"
    /\ suffixLetters' = newSuffixLetters
    /\ UNCHANGED <<prefixList, prefixesTree, suffixList, suffixesTree, joker, validAffixesList,
                   prefixLetters, infixLetters, maxPrefixLength, maxSuffixLength, minStemLength>>
    /\ KeepOutcome

SetInfixLetters(newInfixLetters) ==
    /\ pc # "run"
    /\ infixLetters' = newInfixLetters
    /\ UNCHANGED <<prefixList, prefixesTree, suffixList, suffixesTree, joker, validAffixesList,
                   prefixLetters, suffixLetters, maxPrefixLength, maxSuffixLength, minStemLength>>
    /\ KeepOutcome

SetMaxPrefixLength(newMaxPrefixLength) ==
    /\ pc # "run"
    /\ maxPrefixLength' = newMaxPrefixLength
    /\ UNCHANGED <<prefixList, prefixesTree, suffixList, suffixesTree, joker, validAffixesList,
                   prefixLetters, suffixLetters, infixLetters, maxSuffixLength, minStemLength>>
    /\ KeepOutcome

SetMaxSuffixLength(newMaxSuffixLength) ==
    /\ pc # "run"
    /\ maxSuffixLength' = newMaxSuffixLength
    /\ UNCHANGED <<prefixList, prefixesTree, suffixList, suffixesTree, joker, validAffixesList,
                   prefixLetters, suffixLetters, infixLetters, maxPrefixLength, minStemLength>>
    /\ KeepOutcome

SetMinStemLength(newMinStemLength) ==
    /\ pc # "run"
    /\ minStemLength' = newMinStemLength
    /\ UNCHANGED <<prefixList, prefixesTree, suffixList, suffixesTree, joker, validAffixesList,
                   prefixLetters, suffixLetters, infixLetters, maxPrefixLength, maxSuffixLength>>
    /\ ResetCall

(***************************************************************************)
(* LightStem and chooseRoot: the entry of a call                           *)
(***************************************************************************)
\* the outcome r ends the call
Finish(r) ==
    /\ pc' = "done"
    /\ stack' = <<>>
    /\ result' = r

\* the running frame returns v
Return(stk, v) ==
    LET d == Deliver(stk, v)
    IN  IF d.done THEN Finish(d.result)
        ELSE /\ pc' = "run"
             /\ stack' = d.stack
             /\ result' = NoResult

\* a call starts on the idle stemmer, or repeats the LightStem call that has just ended
CanCall(entry, w) == pc = "idle" \/ (pc = "done" /\ entry = "LightStem" /\ op = entry /\ word = w)

\* C14, the slip looked for: no early return, the empty word goes through
\* transform2Stars, segment and getStem like any other
NeverReturnsEarly(w) == FALSE

\* if word == "" { return "" }, the first statement of LightStem
ReturnsEarly(w) == w = <<>>

LightStem(w) ==
    /\ CanCall("LightStem", w)
    /\ op' = "LightStem"
    /\ word' = w
    /\ call' = NoCall
    /\ prev' = IF pc = "done"
               THEN [set |-> TRUE, word |-> word, result |-> result,
                     window |-> <<stars.left, stars.right>>]
               ELSE IF prev.set /\ prev.word = w THEN prev ELSE NoPrev
    /\ prefixesTree' = prefixesTreeAfterLookup(prefixesTree, w)
    /\ UNCHANGED <<prefixList, suffixList, suffixesTree, joker, validAffixesList, Window>>
    /\ IF ReturnsEarly(w)
       THEN /\ seg' = NoSeg
            /\ stars' = NoStars
            /\ Finish(Outcome("ok", <<>>, "empty", -1, -1, {}))
       ELSE LET st == transform2Stars(w, prefixList, suffixList, joker)
                sg == segment(w, prefixesTree, suffixesTree)
            IN  /\ stars' = st
                /\ seg' = sg
                /\ IF st.panic THEN Finish(Panic("transform2Stars"))
                   ELSE IF sg.panic THEN Finish(Panic("segment"))
                   ELSE /\ pc' = "run"
                        /\ stack' = <<Frame("getStem", "enter", sg.left, sg.right, -1, -1)>>
                        /\ result' = NoResult

\* chooseRoot(word, unvocalized, "", stemLeft, stemRight, -1, -1, segmentList), with the
\* values transform2Stars and segment give for the word
ChooseRootCall(w) ==
    /\ CanCall("chooseRoot", w)
    /\ w # <<>>
    /\ op' = "chooseRoot"
    /\ word' = w
    /\ call' = NoCall
    /\ prev' = NoPrev
    /\ prefixesTree' = prefixesTreeAfterLookup(prefixesTree, w)
    /\ UNCHANGED <<prefixList, suffixList, suffixesTree, joker, validAffixesList, Window>>
    /\ LET st == transform2Stars(w, prefixList, suffixList, joker)
           sg == segment(w, prefixesTree, suffixesTree)
       IN  /\ stars' = st
           /\ seg' = sg
           /\ IF st.panic THEN Finish(Panic("transform2Stars"))
              ELSE IF sg.panic THEN Finish(Panic("segment"))
              ELSE /\ pc' = "run"
                   /\ stack' = <<Frame("chooseRoot", "enter", -1, -1, -1, -1)>>
                   /\ result' = NoResult

\* the caller has taken the outcome of the call that ended
Resume ==
    /\ pc = "done"
    /\ UNCHANGED Config
    /\ ResetCall

(***************************************************************************)
(* getStem                                                                 *)
(***************************************************************************)
\* C23, the slip looked for: with an index given, getStem takes the window of
\* transform2Stars instead of the indexes
getStemBoundsOfWindow(left, right, stemLeft, stemRight, prefixIndex, suffixIndex, n) ==
    IF prefixIndex >= 0 \/ suffixIndex >= 0
    THEN <<IF stemLeft < 0 THEN 0 ELSE stemLeft, IF stemRight > n THEN n ELSE stemRight>>
    ELSE <<left, right>>

\* lines 483-512: the boundaries getStem works out when an index is given
getStemBounds(left, right, stemLeft, stemRight, prefixIndex, suffixIndex, n) ==
    IF prefixIndex >= 0 \/ suffixIndex >= 0
    THEN LET l1 == IF prefixIndex < 0 THEN stemLeft ELSE prefixIndex
             r1 == IF suffixIndex < 0 THEN stemRight ELSE suffixIndex
         IN  <<IF l1 < 0 THEN 0 ELSE l1, IF r1 > n THEN n ELSE r1>>
    ELSE <<left, right>>

\* line 509: the slice is returned when the boundaries are in order
getStemReturns(b, prefixIndex, suffixIndex, n) ==
    (prefixIndex >= 0 \/ suffixIndex >= 0) /\ b[1] <= b[2] /\ b[1] < n

\* a getStem call below the running one that waits for chooseStem with the same arguments
Reentered(stk, f) ==
    \E i \in 1..(Len(stk) - 1) :
        /\ stk[i].fn = f.fn
        /\ stk[i].left = f.left
        /\ stk[i].right = f.right
        /\ stk[i].pi = f.pi
        /\ stk[i].si = f.si
        /\ stk[i].root = f.root

StepGetStem ==
    /\ pc = "run"
    /\ Top.fn = "getStem"
    /\ Top.st = "enter"
    /\ UNCHANGED <<Config, CallVars, prev>>
    /\ LET f == Top
           n == Len(seg.unvocalized)
           b == getStemBounds(f.left, f.right, stars.left, stars.right, f.pi, f.si, n)
       IN  IF getStemReturns(b, f.pi, f.si, n)
           THEN Return(Pop(stack),
                       Outcome("ok", Slice(seg.unvocalized, b[1], b[2]), "index", b[1], b[2], {}))
           ELSE IF Reentered(stack, f) THEN Finish(Diverge("getStem"))
           ELSE /\ pc' = "run"
                /\ result' = NoResult
                /\ stack' = Append(SetTop(stack, [f EXCEPT !.st = "wait"]),
                                   Frame("chooseStem", "enter", b[1], b[2], -1, -1))

(***************************************************************************)
(* chooseStem                                                              *)
(***************************************************************************)
StepChooseStemEnter ==
    /\ pc = "run"
    /\ Top.fn = "chooseStem"
    /\ Top.st = "enter"
    /\ UNCHANGED <<Config, CallVars, prev>>
    /\ IF IsStopword(word)
       THEN Return(Pop(stack), Outcome("ok", StopStem(word), "stopword", -1, -1, {}))
       ELSE /\ pc' = "run"
            /\ result' = NoResult
            /\ stack' = SetTop(stack, [Top EXCEPT !.st = "loop",
                                                  !.keys = DOMAIN seg.segmentList])

\* the range over segList visits the keys in an order the language leaves open, and
\* the segments of one key in the order they were appended
NextSegment(f, k) ==
    IF f.cur # <<>> THEN [s |-> Head(f.cur), cur |-> Tail(f.cur), keys |-> f.keys]
    ELSE [s |-> Head(seg.segmentList[k]), cur |-> Tail(seg.segmentList[k]),
          keys |-> f.keys \ {k}]

\* one turn of the loop: verifyAffix takes the prefix and the suffix and calls getStem
StepChooseStemVerify ==
    /\ pc = "run"
    /\ Top.fn = "chooseStem"
    /\ Top.st = "loop"
    /\ UNCHANGED <<Config, CallVars, prev>>
    /\ \E k \in (IF Top.cur # <<>> THEN {-1} ELSE Top.keys) :
          LET f == Top
              nx == NextSegment(f, k)
              li == nx.s[1]
              ri == nx.s[2]
              va == [Frame("verifyAffix", "wait", f.left, f.right, li, ri)
                        EXCEPT !.prefix = getPrefix(seg.unvocalized, f.left, li),
                               !.suffix = getSuffix(seg.unvocalized, f.right, ri)]
          IN  /\ pc' = "run"
              /\ result' = NoResult
              /\ stack' = SetTop(stack, [f EXCEPT !.cur = nx.cur, !.keys = nx.keys])
                          \o <<va, Frame("getStem", "enter", f.left, f.right, li, ri)>>

\* lines 545-552: the boundaries chooseStem takes
chooseStemBounds(valid, w) ==
    IF DOMAIN valid = {} THEN <<0, Len(w)>> ELSE getLeftRight(valid)

\* lines 555-560: the boundaries are brought within the unvocalized word
clampBounds(b, n) == <<IF b[1] < 0 THEN 0 ELSE b[1], IF b[2] > n THEN n ELSE b[2]>>

StepChooseStemEnd ==
    /\ pc = "run"
    /\ Top.fn = "chooseStem"
    /\ Top.st = "loop"
    /\ Top.cur = <<>>
    /\ Top.keys = {}
    /\ UNCHANGED <<Config, CallVars, prev>>
    /\ LET n == Len(seg.unvocalized)
           b == clampBounds(chooseStemBounds(Top.valid, word), n)
       IN  IF b[1] > b[2] THEN Finish(Panic("chooseStem"))
           ELSE Return(Pop(stack),
                       Outcome("ok", Slice(seg.unvocalized, b[1], b[2]), "chosen",
                               b[1], b[2], Pairs(Top.valid)))

(***************************************************************************)
(* chooseRoot, getAffixList, getAffixTuple, getRoot                        *)
(***************************************************************************)
StepChooseRootEnter ==
    /\ pc = "run"
    /\ Top.fn = "chooseRoot"
    /\ Top.st = "enter"
    /\ UNCHANGED <<Config, CallVars, prev>>
    /\ IF IsStopword(word)
       THEN Return(Pop(stack), Outcome("ok", StopRoot(word), "stopword", -1, -1, {}))
       ELSE /\ pc' = "run"
            /\ result' = NoResult
            /\ stack' = SetTop(stack, [Top EXCEPT !.st = "loop",
                                                  !.keys = DOMAIN seg.segmentList])

\* one turn of getAffixList: getAffixTuple takes the prefix and the suffix and calls getStem
StepAffixTupleStem ==
    /\ pc = "run"
    /\ Top.fn = "chooseRoot"
    /\ Top.st = "loop"
    /\ UNCHANGED <<Config, CallVars, prev>>
    /\ \E k \in (IF Top.cur # <<>> THEN {-1} ELSE Top.keys) :
          LET f == Top
              nx == NextSegment(f, k)
              li == nx.s[1]
              ri == nx.s[2]
              at == [Frame("getAffixTuple", "stem", li, ri, f.pi, f.si)
                        EXCEPT !.prefix = getPrefix(seg.unvocalized, li, f.pi),
                               !.suffix = getSuffix(seg.unvocalized, ri, f.si),
                               !.root = f.root]
          IN  /\ pc' = "run"
              /\ result' = NoResult
              /\ stack' = SetTop(stack, [f EXCEPT !.cur = nx.cur, !.keys = nx.keys])
                          \o <<at, Frame("getStem", "enter", li, ri, f.pi, f.si)>>

\* getAffixTuple has its stem and its starred stem: getRoot, given no index, calls chooseRoot
StepAffixTupleRoot ==
    /\ pc = "run"
    /\ Top.fn = "getAffixTuple"
    /\ Top.st = "root"
    /\ Top.pi < 0
    /\ Top.si < 0
    /\ UNCHANGED <<Config, CallVars, prev>>
    /\ LET callee == [Frame("chooseRoot", "enter", -1, -1, Top.pi, Top.si)
                         EXCEPT !.root = Top.root]
       IN  IF Reentered(Append(stack, callee), callee) THEN Finish(Diverge("chooseRoot"))
           ELSE /\ pc' = "run"
                /\ result' = NoResult
                /\ stack' = stack \o <<Frame("getRoot", "wait", Top.left, Top.right, Top.pi, Top.si),
                                       callee>>

StepChooseRootEnd ==
    /\ pc = "run"
    /\ Top.fn = "chooseRoot"
    /\ Top.st = "loop"
    /\ Top.cur = <<>>
    /\ Top.keys = {}
    /\ UNCHANGED <<Config, CallVars, prev>>
    /\ Return(Pop(stack), Outcome("ok", chooseAmongRoots(Top.roots), "root", -1, -1, {}))

(***************************************************************************)
(* getStarStem, handleTehInfix, normalizeRoot, ajustRoot, extractRoot and  *)
(* getRoot with an index                                                   *)
(***************************************************************************)
\* s[lo:hi] of a Go string, the offsets counting bytes: the characters that lie
\* whole between the offsets, and one stray byte for each byte of a character cut
RECURSIVE ByteSlice(_, _, _)
ByteSlice(s, lo, hi) ==
    IF s = <<>> THEN <<>>
    ELSE LET w == Len(UTF8(Head(s)))
             inside == Cardinality({b \in 0..(w - 1) : b >= lo /\ b < hi})
             here == IF inside = w THEN <<Head(s)>> ELSE [i \in 1..inside |-> STRAY]
         IN  here \o ByteSlice(Tail(s), lo - w, hi - w)

\* regexp [^class] replaced by the joker, a stray byte being outside every class
RECURSIVE MaskOutsideBy(_, _, _)
MaskOutsideBy(s, class, jk) ==
    IF s = <<>> THEN <<>>
    ELSE (IF Head(s) \in class THEN <<Head(s)>> ELSE jk) \o MaskOutsideBy(Tail(s), class, jk)

\* s[:at] + strings.Replace(s[at:], c, by, -1): the characters c that begin at byte at or later
RECURSIVE ReplaceFrom(_, _, _, _)
ReplaceFrom(s, at, c, by) ==
    IF s = <<>> THEN <<>>
    ELSE (IF at <= 0 /\ Head(s) = c THEN by ELSE <<Head(s)>>)
         \o ReplaceFrom(Tail(s), at - Len(UTF8(Head(s))), c, by)

\* lines 879-908; TAH and DAL are no infix letters here, so the mask has replaced them already
handleTehInfix(w, starword, left, right) ==
    LET keyStem == Filter(starword, {TEH_MARBUTA})
    IN  IF ByteLen(keyStem) # 4 THEN ReplaceChar(starword, TEH, joker)
        ELSE ReplaceFrom(starword, 2, TEH, joker)

\* lines 845-876: the indexes, offsets in characters of unvocalized, cut the BYTES of word
getStarStem(w, left, right, prefixIndex, suffixIndex) ==
    LET tempLeft == IF prefixIndex >= 0 THEN prefixIndex ELSE left
        tempRight == IF suffixIndex >= 0 THEN suffixIndex ELSE right
        cut == ByteSlice(w, tempLeft, tempRight)
    IN  IF infixLetters # {}
        THEN handleTehInfix(w, MaskOutsideBy(cut, infixLetters \cup {TEH_MARBUTA}, joker),
                            tempLeft, tempRight)
        ELSE MaskOutsideBy([i \in 1..(tempRight - tempLeft) |-> STRAY], {}, joker)

\* utils.NormalizeHamza: the Alef forms become Alef, Waw-Hamza and Yeh-Hamza become Hamza
NormalizeHamza(text) ==
    MapClass(MapClass(text, {ALEF_MADDA, ALEF_HAMZA_ABOVE, ALEF_HAMZA_BELOW}, ALEF),
             {WAW_HAMZA, YEH_HAMZA}, HAMZA)

normalizeRoot(w) ==
    NormalizeHamza(ReplaceChar(ReplaceChar(ReplaceChar(w, ALEF_MADDA, <<HAMZA, ALEF>>),
                                           TEH_MARBUTA, <<>>),
                               ALEF_MAKSURA, <<YEH>>))

\* string(s[i]) of the byte b: the character whose code is the value of the byte
ByteAsString(b) ==
    IF b < 128 THEN <<CHOOSE c \in {LATIN_A, DASH, STAR, HASH} : UTF8(c) = <<b>>>>
    ELSE <<LATIN1>>

ajustRoot(root, starstem) ==
    IF starstem = <<>> THEN root
    ELSE IF ByteLen(starstem) = 3
    THEN ReplaceChar(ReplaceChar(starstem, ALEF, <<WAW>>), ALEF_MAKSURA, <<YEH>>)
    ELSE LET sb == Bytes(starstem)
             rb == Bytes(root)
             first == ByteAsString(sb[1])
             last == ByteAsString(sb[Len(sb)])
         IN  IF first = <<ALEF>> \/ first = <<WAW>> THEN <<WAW>> \o root
             ELSE IF first = <<YEH>> THEN <<YEH>> \o root
             ELSE IF first = joker /\ (last = <<ALEF>> \/ last = <<WAW>>) THEN root \o <<WAW>>
             ELSE IF first = joker /\ (last = <<ALEF_MAKSURA>> \/ last = <<YEH>>)
             THEN root \o <<WAW>>
             ELSE IF first = joker /\ last = joker
             THEN IF Len(sb) = 2 THEN root \o ByteAsString(rb[Len(rb)])
                  ELSE ByteAsString(rb[1]) \o <<WAW>> \o ByteAsString(rb[2])
             ELSE root

\* lines 727-733: the characters of the stem at whose byte offset the starred stem has the joker
StarredLetters(stem, starStem) ==
    LET sb == Bytes(starStem)
        at(k) == ByteLen(SubSeq(stem, 1, k - 1)) + 1
        keep == {k \in 1..Len(stem) : ByteAsString(sb[at(k)]) = joker}
    IN  SelectSeq([k \in 1..Len(stem) |-> [c |-> stem[k], keep |-> k \in keep]],
                  LAMBDA e : e.keep)

\* extractRoot with an index for which getStem returns the slice at once
extractRoot(w, unvocalized, root, left, right, stemLeft, stemRight, prefixIndex, suffixIndex) ==
    LET b == getStemBounds(left, right, stemLeft, stemRight, prefixIndex, suffixIndex,
                           Len(unvocalized))
        stem == Slice(unvocalized, b[1], b[2])
        starStem == getStarStem(w, left, right, prefixIndex, suffixIndex)
        picked == StarredLetters(stem, starStem)
        root1 == IF ByteLen(starStem) = ByteLen(stem)
                 THEN [k \in 1..Len(picked) |-> picked[k].c]
                 ELSE stem
        root2 == normalizeRoot(root1)
    IN  IF ByteLen(stem) = 3 THEN ajustRoot(root, stem)
        ELSE IF ByteLen(root2) = 2 THEN ajustRoot(root2, starStem)
        ELSE root2

\* lines 706-711 with an index: the value of extractRoot is dropped, root is returned as given
getRoot(w, unvocalized, root, left, right, stemLeft, stemRight, prefixIndex, suffixIndex) ==
    root

(***************************************************************************)
(* The specification                                                       *)
(***************************************************************************)
Next ==
    \/ \E l \in PrefixLists : SetPrefixList(l)
    \/ \E l \in SuffixLists : SetSuffixList(l)
    \/ pc # "run" /\ \E w \in Words : LightStem(w)
    \/ pc = "idle" /\ \E w \in Words : ChooseRootCall(w)
    \/ Resume
    \/ StepGetStem
    \/ StepChooseStemEnter
    \/ StepChooseStemVerify
    \/ StepChooseStemEnd
    \/ StepChooseRootEnter
    \/ StepAffixTupleStem
    \/ StepAffixTupleRoot
    \/ StepChooseRootEnd

Spec == Init /\ [][Next]_vars

\* the stemmer whose joker and table of valid affixes are set between the calls
NextTuned ==
    \/ \E s \in Jokers : SetJoker(s)
    \/ \E t \in AffixTables : SetValidAffixesList(t)
    \/ pc # "run" /\ \E w \in Words : LightStem(w)
    \/ Resume
    \/ StepGetStem
    \/ StepChooseStemEnter
    \/ StepChooseStemVerify
    \/ StepChooseStemEnd

SpecTuned == Init /\ [][NextTuned]_vars

\* the stemmer whose minimum stem length is set between the calls
NextMinStem ==
    \/ \E n \in 1..MaxMinStem : SetMinStemLength(n)
    \/ pc # "run" /\ \E w \in Words : LightStem(w)
    \/ Resume
    \/ StepGetStem
    \/ StepChooseStemEnter
    \/ StepChooseStemVerify
    \/ StepChooseStemEnd

SpecMinStem == Init /\ [][NextMinStem]_vars

\* the letter classes and the limits handed to the setters of the window
PrefixLetterClasses == {DEFAULT_PREFIX_LETTERS, {KAF}}

SuffixLetterClasses == {DEFAULT_SUFFIX_LETTERS, {NOON}}

InfixLetterClasses == {DEFAULT_INFIX_LETTERS, {LAM}}

MaxPrefixLengths == {1, DEFAULT_MAX_PREFIX}

MaxSuffixLengths == {1, DEFAULT_MAX_SUFFIX}

\* the words stemmed before and after the window is set
WindowWords == UNION {[1..n -> EnumChars] : n \in 0..(MaxWordLen - 1)} \cup ScenarioWords

\* the stemmer whose letter classes and limits are set between the calls; once
\* they are set after a call, the next call stems the same word
NextWindow ==
    \/ \E l \in PrefixLetterClasses : SetPrefixLetters(l)
    \/ \E l \in SuffixLetterClasses : SetSuffixLetters(l)
    \/ \E l \in InfixLetterClasses : SetInfixLetters(l)
    \/ \E n \in MaxPrefixLengths : SetMaxPrefixLength(n)
    \/ \E n \in MaxSuffixLengths : SetMaxSuffixLength(n)
    \/ pc # "run" /\ \E w \in WindowWords : (prev.set => w = prev.word) /\ LightStem(w)
    \/ Resume
    \/ StepGetStem
    \/ StepChooseStemEnter
    \/ StepChooseStemVerify
    \/ StepChooseStemEnd

SpecWindow == Init /\ [][NextWindow]_vars

(***************************************************************************)
(* lookupPrefixes and lookupSuffixes by themselves: a stemmer is built     *)
(* with a prefix list and a suffix list, and the lookups are applied to    *)
(* words.                                                                  *)
(***************************************************************************)
LookupChars == {ALEF, LAM, WAW, NOON, HASH, LATIN_A}

LookupWords == UNION {[1..n -> LookupChars] : n \in 0..MaxWordLen}

InitLookup ==
    /\ prefixList \in PrefixLists
    /\ suffixList \in SuffixLists
    /\ prefixesTree = createPrefixTree(prefixList)
    /\ suffixesTree = createSuffixTree(suffixList)
    /\ joker = <<DEFAULT_JOKER>>
    /\ validAffixesList = NOUN_AFFIX_LIST \o VERB_AFFIX_LIST
    /\ prefixLetters = DEFAULT_PREFIX_LETTERS
    /\ suffixLetters = DEFAULT_SUFFIX_LETTERS
    /\ infixLetters = DEFAULT_INFIX_LETTERS
    /\ maxPrefixLength = DEFAULT_MAX_PREFIX
    /\ maxSuffixLength = DEFAULT_MAX_SUFFIX
    /\ minStemLength = DEFAULT_MIN_STEM
    /\ pc = "idle"
    /\ op = "none"
    /\ word = <<>>
    /\ seg = NoSeg
    /\ stars = NoStars
    /\ stack = <<>>
    /\ result = NoResult
    /\ prev = NoPrev
    /\ call = NoCall

\* lefts := als.lookupPrefixes(w)
LookupPrefixesCall(w) ==
    /\ pc = "idle"
    /\ pc' = "done"
    /\ op' = "lookupPrefixes"
    /\ word' = w
    /\ LET lp == lookupPrefixes(w, prefixesTree)
       IN  seg' = [NoSeg EXCEPT !.panic = lp.panic, !.lefts = lp.offs]
    /\ UNCHANGED <<Config, stars, stack, result, prev, call>>

\* rights := als.lookupSuffixes(w)
LookupSuffixesCall(w) ==
    /\ pc = "idle"
    /\ pc' = "done"
    /\ op' = "lookupSuffixes"
    /\ word' = w
    /\ LET ls == lookupSuffixes(w, suffixesTree)
       IN  seg' = [NoSeg EXCEPT !.panic = ls.panic, !.rights = ls.offs]
    /\ UNCHANGED <<Config, stars, stack, result, prev, call>>

NextLookup ==
    \/ \E w \in LookupWords : LookupPrefixesCall(w)
    \/ \E w \in LookupWords : LookupSuffixesCall(w)
    \/ Resume

SpecLookup == InitLookup /\ [][NextLookup]_vars

(***************************************************************************)
(* The functions of the stemmer applied by themselves to arguments drawn   *)
(* from bounded sets.                                                      *)
(***************************************************************************)
\* n times the character c
Run(c, n) == [i \in 1..n |-> c]

\* the stems handed to validStem: runs of one letter of every length up to
\* MaxStemLen, and the letters of the verbs of the list with weak letters before
\* and between them, with and without a Teh Marbuta at the end
ValidStemStems ==
    {Run(BEH, n) : n \in 0..MaxStemLen}
    \cup {h \o <<KAF>> \o Run(WAW, n) \o <<TEH, BEH>> \o t :
            h \in {<<>>, <<ALEF>>}, n \in 0..(MaxStemLen - 4),
            t \in {<<>>, <<TEH_MARBUTA>>}}
    \cup {<<TEH>> \o Run(WAW, n) \o <<BEH>> : n \in 0..(MaxStemLen - 2)}

\* the prefixes handed to validStem
ValidStemPrefixes ==
    {<<>>, <<YEH>>, <<TEH>>, <<NOON>>, <<ALEF_HAMZA_ABOVE>>, <<ALEF>>, <<LAM>>,
     <<ALEF, LAM>>, <<LAM, YEH>>}

\* als.validStem(stem, tag, prefix)
ValidStemCall(stem, tag, prefix) ==
    /\ pc = "idle"
    /\ pc' = "done"
    /\ call' = [fn |-> "validStem", args |-> <<stem, tag, prefix>>,
                ret |-> validStem(stem, tag, prefix)]
    /\ UNCHANGED <<Config, op, word, seg, stars, stack, result, prev>>

\* candidate roots: of one to five letters, of two to ten bytes, in the dictionary or not
RootCandidates ==
    {<<>>, <<BEH>>, <<BEH, KAF>>, <<LATIN_A, BEH>>, <<LATIN_A, LATIN_A, LATIN_A>>,
     <<KAF, TEH, BEH>>, <<TEH, ALEF, BEH>>, <<KAF, TEH, ALEF, BEH, TEH>>}

RootLists == UNION {[1..n -> RootCandidates] : n \in 0..MaxRoots}

\* the filtering of chooseRoot, given the roots of the affix list
ChooseAmongRootsCall(roots) ==
    /\ pc = "idle"
    /\ pc' = "done"
    /\ call' = [fn |-> "chooseRoot", args |-> <<roots>>, ret |-> chooseAmongRoots(roots)]
    /\ UNCHANGED <<Config, op, word, seg, stars, stack, result, prev>>

\* len(stem) == 3, the stem that extractRoot takes for the root as it is
RootLetters == 3

\* the letters of the stems: plain ones, those the normalization touches, an ASCII one
ExtractChars == {KAF, TEH, BEH, ALEF_MADDA, TEH_MARBUTA, ALEF_MAKSURA, WAW_HAMZA, LATIN_A}

\* a stem of three letters, by itself or behind the article
ExtractWords ==
    {p \o st : p \in {<<>>, <<ALEF, LAM>>}, st \in [1..RootLetters -> ExtractChars]}

\* the indexes for which getStem returns unvocalized[prefixIndex:suffixIndex] at once
ExtractIndexes(w) ==
    {ix \in (0..Len(w)) \X (0..Len(w)) : ix[1] <= ix[2] /\ ix[1] < Len(w)}

\* als.extractRoot(word, unvocalized, "", ..., prefixIndex, suffixIndex, segmentList)
ExtractRootCall(w, prefixIndex, suffixIndex) ==
    /\ pc = "idle"
    /\ pc' = "done"
    /\ call' = [fn |-> "extractRoot", args |-> <<w, <<>>, prefixIndex, suffixIndex>>,
                ret |-> extractRoot(w, StripTashkeel(w), <<>>, -1, -1, -1, -1,
                                    prefixIndex, suffixIndex)]
    /\ UNCHANGED <<Config, op, word, seg, stars, stack, result, prev>>

\* als.getRoot(word, unvocalized, root, ..., prefixIndex, suffixIndex, segmentList)
GetRootCall(w, root, prefixIndex, suffixIndex) ==
    /\ pc = "idle"
    /\ pc' = "done"
    /\ call' = [fn |-> "getRoot", args |-> <<w, root, prefixIndex, suffixIndex>>,
                ret |-> getRoot(w, StripTashkeel(w), root, -1, -1, -1, -1,
                                prefixIndex, suffixIndex)]
    /\ UNCHANGED <<Config, op, word, seg, stars, stack, result, prev>>

\* als.mostCommon(lst)
MostCommonCall(lst) ==
    /\ pc = "idle"
    /\ pc' = "done"
    /\ call' = [fn |-> "mostCommon", args |-> <<lst>>, ret |-> mostCommon(lst)]
    /\ UNCHANGED <<Config, op, word, seg, stars, stack, result, prev>>

\* the letters of the verbs: consonants of two bytes, a weak letter, a Hamza form, a
\* diacritic, a letter of one byte
VerbChars == {TEH, BEH, KAF, ALEF, ALEF_HAMZA_ABOVE, FATHA, LATIN_A}

Verbs == UNION {[1..n -> VerbChars] : n \in 0..MaxVerbLen}

\* vn.Normalize(verb)
NormalizeCall(verb) ==
    /\ pc = "idle"
    /\ pc' = "done"
    /\ call' = [fn |-> "Normalize", args |-> <<verb>>, ret |-> Normalize(verb)]
    /\ UNCHANGED <<Config, op, word, seg, stars, stack, result, prev>>

\* vlm.IsVerbStamp(stem)
IsVerbStampCall(stem) ==
    /\ pc = "idle"
    /\ pc' = "done"
    /\ call' = [fn |-> "IsVerbStamp", args |-> <<stem>>, ret |-> IsVerbStamp(stem)]
    /\ UNCHANGED <<Config, op, word, seg, stars, stack, result, prev>>

NextPure ==
    \/ pc = "idle" /\ \E stem \in ValidStemStems, tag \in {"verb", "noun"},
                         prefix \in ValidStemPrefixes :
                         ValidStemCall(stem, tag, prefix)
    \/ pc = "idle" /\ \E roots \in RootLists : ChooseAmongRootsCall(roots)
    \/ pc = "idle" /\ \E lst \in RootLists : MostCommonCall(lst)
    \/ pc = "idle" /\ \E w \in ExtractWords : \E ix \in ExtractIndexes(w) :
                         ExtractRootCall(w, ix[1], ix[2])
    \/ pc = "idle" /\ \E w \in ExtractWords : \E ix \in ExtractIndexes(w),
                                                  root \in {<<>>, <<KAF, TEH, BEH>>} :
                         GetRootCall(w, root, ix[1], ix[2])
    \/ pc = "idle" /\ \E verb \in Verbs : NormalizeCall(verb)
    \/ pc = "idle" /\ \E stem \in Verbs : IsVerbStampCall(stem)
    \/ Resume

SpecPure == Init /\ [][NextPure]_vars

(***************************************************************************)
(* The properties of the specification.                                    *)
(***************************************************************************)
\* a LightStem call has ended
DoneLightStem == pc = "done" /\ op = "LightStem"

\* the lists are those the constructor set
DefaultConfig ==
    /\ prefixList = DEFAULT_PREFIX_LIST
    /\ suffixList = DEFAULT_SUFFIX_LIST
    /\ joker = <<DEFAULT_JOKER>>
    /\ validAffixesList = NOUN_AFFIX_LIST \o VERB_AFFIX_LIST

\* the call returned the string v
Returned(v) == result.kind = "ok" /\ result.val = v

\* C1: for every stopword w, LightStem(w) returns StopStem(w), whatever the tries
\* and the segmentation would give for w.
C1_StopwordBypass ==
    (DoneLightStem /\ IsStopword(word)) => Returned(StopStem(word))

\* C2: with the default configuration LightStem of a non-empty word returns a
\* string: no index out of range, no inverted slice.
C2_NoPanic ==
    (DoneLightStem /\ DefaultConfig /\ word # <<>>) => result.kind # "panic"

\* the word is a listed prefix or an initial part of one, and no listed prefix
\* of the word leaves two characters or more after it
Consumed(w) ==
    /\ w # <<>>
    /\ w \in createPrefixTree(prefixList).nodes
    /\ \A i \in 1..Len(prefixList) :
          (prefixList[i] # <<>> /\ HasPrefix(w, prefixList[i]))
              => Len(w) - Len(prefixList[i]) < 2

\* C3: a non-stopword word entirely consumed by prefix matching is returned
\* whole as its own stem.
C3_ConsumedWordIsItsStem ==
    (DoneLightStem /\ DefaultConfig /\ ~IsStopword(word) /\ Consumed(word))
        => Returned(word)

\* C4: for a non-stopword word none of whose segments was accepted by
\* verifyAffix (the segment list may be empty), LightStem returns the whole
\* unvocalized word, from boundary 0 to its length.
C4_WholeWordFallback ==
    (DoneLightStem /\ DefaultConfig /\ word # <<>> /\ ~IsStopword(word)
        /\ result.accepted = {})
        => /\ Returned(StripTashkeel(word))
           /\ result.left = 0
           /\ result.right = Len(StripTashkeel(word))

\* C5: LightStem terminates: getStem, chooseStem and verifyAffix never call
\* each other again with the arguments of a call still in progress.
C5_LightStemTerminates ==
    (DoneLightStem /\ DefaultConfig) => result.kind # "diverge"

\* C6: two LightStem calls with the same word and no change of configuration in
\* between have the same outcome, whatever the order the segment maps are
\* visited in.
C6_Deterministic ==
    (DoneLightStem /\ prev.set)
        => /\ prev.word = word
           /\ result.kind = prev.result.kind
           /\ result.val = prev.result.val

\* C6 witness: a word with two left boundaries and two accepted segments has
\* been stemmed twice.
C6_Witness ==
    /\ DoneLightStem
    /\ prev.set
    /\ Cardinality(DOMAIN seg.segmentList) >= 2
    /\ result.kind = "ok"
    /\ Cardinality({p[1] : p \in result.accepted}) >= 2

\* C7: after SetSuffixList(L) the suffix trie is the one built from L.
C7_SuffixTrieRebuilt ==
    suffixesTree = createSuffixTree(suffixList)

\* the word as lookupPrefixes receives it from segment
Expanded(w) == ReplaceChar(w, ALEF_MADDA, <<HAMZA, ALEF>>)

\* C8: after SetPrefixList(L) the prefix trie is the one built from L, and the
\* next segmentation recognizes exactly the prefixes of L: an offset inside the
\* word is a left boundary if and only if the characters before it are a
\* prefix of L.
C8_PrefixTrieRebuilt ==
    /\ prefixesTree = createPrefixTree(prefixList)
    /\ (pc = "done" /\ word # <<>> /\ ~seg.panic)
          => \A k \in 1..Len(Expanded(word)) :
                Contains(seg.lefts, k)
                    <=> /\ k < Len(Expanded(word))
                        /\ Contains(prefixList, Slice(Expanded(word), 0, k))

\* C8 witness: after SetPrefixList a call recognized a prefix that only the
\* new list has and did not recognize one that only the list before had.
C8_Witness ==
    /\ pc = "done"
    /\ ~seg.panic
    /\ prefixList # DEFAULT_PREFIX_LIST
    /\ \E k \in 1..Len(word) :
          /\ Contains(seg.lefts, k)
          /\ ~Contains(DEFAULT_PREFIX_LIST, Slice(word, 0, k))
    /\ \E k \in 1..(Len(word) - 1) :
          /\ ~Contains(seg.lefts, k)
          /\ Contains(DEFAULT_PREFIX_LIST, Slice(word, 0, k))

\* the word is a listed prefix p, paired with no suffix in the noun table,
\* followed by the stem s of two letters or more, and ends in no listed suffix
PrefixThenStem(w, p, s) ==
    /\ w = p \o s
    /\ p # <<>>
    /\ Contains(prefixList, p)
    /\ AffixInList(p \o <<DASH>>, NOUN_AFFIX_LIST)
    /\ Len(s) >= 2
    /\ IsAlpha(s)
    /\ \A i \in 1..Len(suffixList) :
          suffixList[i] # <<>> => ~HasSuffix(w, suffixList[i])

\* C9: LightStem of a non-stopword word made of a listed prefix p, with "p-" in
\* the noun table, and of a stem of two letters or more returns the word
\* without p.
C9_PrefixStripped ==
    (DoneLightStem /\ DefaultConfig /\ ~IsStopword(word))
        => \A k \in 1..Len(word) :
              PrefixThenStem(word, Slice(word, 0, k), Slice(word, k, Len(word)))
                  => Returned(Slice(word, k, Len(word)))

\* C10: for the verb form YEH KAF TEH BEH WAW NOON the stem chosen is
\* KAF TEH BEH, and chooseRoot, given no index, returns the root KAF TEH BEH.
C10_VerbStemAndRoot ==
    (pc = "done" /\ DefaultConfig /\ word = <<YEH, KAF, TEH, BEH, WAW, NOON>>)
        => Returned(<<KAF, TEH, BEH>>)

\* the "prefix-suffix" string of the segment (l, r) of the call's word
AffixOf(l, r) ==
    getPrefix(seg.unvocalized, -1, l) \o <<DASH>> \o getSuffix(seg.unvocalized, -1, r)

\* C11: a segment is accepted by verifyAffix only if its "prefix-suffix" string
\* is an element of the table set by SetValidAffixesList.
C11_OnlyConfiguredAffixes ==
    (DoneLightStem /\ result.kind = "ok")
        => \A p \in result.accepted : Contains(validAffixesList, AffixOf(p[1], p[2]))

\* C12: after SetJoker(s) with s not empty, the joker is the first character of s.
C12_JokerIsFirstCharacter ==
    [][\A s \in Jokers : (s # <<>> /\ SetJoker(s)) => joker' = <<Head(s)>>]_vars

C14_EmptyWordReturnsAtOnce ==
    (DoneLightStem /\ word = <<>>) =>
        /\ Returned(<<>>)
        /\ result.via = "empty"
        /\ seg = NoSeg
        /\ stars = NoStars

\* C14 witness: LightStem("") has returned on a stemmer whose joker is empty,
\* where transform2Stars would have panicked had it run.
C14_Witness ==
    /\ DoneLightStem
    /\ word = <<>>
    /\ joker = <<>>
    /\ result.kind = "ok"

\* C15: in the list segment builds, every pair (l, r) has r >= l + 2, stands
\* under the key l, and stands there once.
C15_SegmentListWellFormed ==
    (pc # "idle" /\ op = "LightStem" /\ ~ReturnsEarly(word) /\ ~seg.panic) =>
        \A k \in DOMAIN seg.segmentList :
            LET ps == seg.segmentList[k]
            IN  /\ ps # <<>>
                /\ \A i \in 1..Len(ps) :
                      /\ ps[i][1] = k
                      /\ ps[i][2] >= k + 2
                      /\ \A j \in 1..Len(ps) : ps[i] = ps[j] => i = j

\* C15 witness: the prefix lookup returned the same offset twice and segment
\* still built a list with a pair under that offset.
C15_Witness ==
    /\ DoneLightStem
    /\ ~seg.panic
    /\ \E i, j \in 1..Len(seg.lefts) :
          /\ i # j
          /\ seg.lefts[i] = seg.lefts[j]
          /\ seg.lefts[i] \in DOMAIN seg.segmentList

\* the word has letters only: no diacritic, no Alef-Madda, so that the offsets
\* of the raw word and of the unvocalized word are the same
PlainWord(w) == \A i \in 1..Len(w) : IsLetter(w[i]) /\ w[i] # ALEF_MADDA /\ w[i] # FATHA

\* C16: when verifyAffix accepted at least one segment, the pair chooseStem ends
\* with is one of the accepted segments, so right >= left + 2 and the stem
\* returned has at least 2 characters.
C16_FinalPairIsAccepted ==
    (/\ DoneLightStem
     /\ DefaultConfig
     /\ PlainWord(word)
     /\ result.kind = "ok"
     /\ result.via = "chosen"
     /\ result.accepted # {}) =>
        /\ <<result.left, result.right>> \in result.accepted
        /\ result.right >= result.left + 2
        /\ Len(result.val) >= 2

\* C17: every pair (l, r) of the list segment returns is a pair of offsets into
\* the unvocalized word u it returns: 0 <= l < r <= Len(u), the l characters
\* before l are a listed prefix or none, the characters from r on are a listed
\* suffix or none.
C17_SegmentsAreOffsetsIntoUnvocalized ==
    (pc # "idle" /\ op = "LightStem" /\ ~ReturnsEarly(word) /\ ~seg.panic /\ DefaultConfig) =>
        \A p \in Pairs(seg.segmentList) :
            LET u == seg.unvocalized
            IN  /\ 0 <= p[1]
                /\ p[1] < p[2]
                /\ p[2] <= Len(u)
                /\ p[1] = 0 \/ Contains(prefixList, Slice(u, 0, p[1]))
                /\ p[2] = Len(u) \/ Contains(suffixList, Slice(u, p[2], Len(u)))

\* C18: lookupPrefixes(w) returns, as a set, 0 together with every offset k
\* inside the word (0 < k < n) whose k first characters are an entry of the
\* prefix list.
C18_AllListedPrefixes ==
    (pc = "done" /\ op = "lookupPrefixes" /\ PlainWord(word)
        /\ prefixList = DEFAULT_PREFIX_LIST) =>
        /\ ~seg.panic
        /\ ToSet(seg.lefts) =
              {0} \cup {k \in 1..(Len(word) - 1) : Contains(prefixList, Slice(word, 0, k))}

\* C19: lookupSuffixes(w) returns, as a set, the offsets k (0 < k <= n) such
\* that the characters of w from k to the end are an entry of the suffix list.
C19_AllListedSuffixes ==
    (pc = "done" /\ op = "lookupSuffixes" /\ suffixList = DEFAULT_SUFFIX_LIST) =>
        /\ ~seg.panic
        /\ ToSet(seg.rights) =
              {k \in 1..Len(word) : Contains(suffixList, Slice(word, k, Len(word)))}

\* the pair is in the verb table and the stem is a valid verb stem
AsVerb(prefix, suffix, stem) ==
    /\ AffixInList(prefix \o <<DASH>> \o suffix, VERB_AFFIX_LIST)
    /\ validStem(stem, "verb", prefix)

\* the pair is in the noun table and the stem is a valid noun stem
AsNoun(prefix, suffix, stem) ==
    /\ AffixInList(prefix \o <<DASH>> \o suffix, NOUN_AFFIX_LIST)
    /\ validStem(stem, "noun", prefix)

\* the stem getStem returns to verifyAffix for the segment p
StemOf(p) ==
    LET n == Len(seg.unvocalized)
        b == getStemBounds(seg.left, seg.right, stars.left, stars.right, p[1], p[2], n)
    IN  Slice(seg.unvocalized, b[1], b[2])

\* C20: verifyAffix accepts a segment exactly when its pair is in the verb
\* table and its stem is a valid verb stem, or its pair is in the noun table
\* and its stem is a valid noun stem; valid as both is accepted as well.
C20_AcceptsVerbOrNoun ==
    (DoneLightStem /\ result.kind = "ok" /\ result.via = "chosen") =>
        \A p \in Pairs(seg.segmentList) :
            LET prefix == getPrefix(seg.unvocalized, seg.left, p[1])
                suffix == getSuffix(seg.unvocalized, seg.right, p[2])
            IN  p \in result.accepted <=>
                    (AsVerb(prefix, suffix, StemOf(p)) \/ AsNoun(prefix, suffix, StemOf(p)))

\* C20 witness: a call has ended with an accepted segment that is valid as a
\* verb and as a noun.
C20_Witness ==
    /\ DoneLightStem
    /\ result.kind = "ok"
    /\ result.via = "chosen"
    /\ \E p \in result.accepted :
          LET prefix == getPrefix(seg.unvocalized, seg.left, p[1])
              suffix == getSuffix(seg.unvocalized, seg.right, p[2])
          IN  AsVerb(prefix, suffix, StemOf(p)) /\ AsNoun(prefix, suffix, StemOf(p))

\* the verb rules in the words of the claim
VerbRules(stem, prefix) ==
    /\ Len(stem) >= 2
    /\ Len(stem) <= 6
    /\ \A i \in 1..Len(stem) : stem[i] # TEH_MARBUTA
    /\ Len(stem) = 6 => stem[1] = ALEF
    /\ (Len(stem) = 5 /\ stem[1] # ALEF /\ stem[1] # TEH) =>
          (prefix = <<>> \/ prefix[Len(prefix)] \notin {YEH, TEH, NOON, ALEF_HAMZA_ABOVE})
    /\ stem[1] = ALEF =>
          (prefix = <<>> \/ prefix[Len(prefix)] \notin {YEH, NOON, TEH, ALEF_HAMZA_ABOVE, ALEF})
    /\ IsVerbStamp(stem)

\* C21, as the code has it: validStem(stem, "verb", prefix) is true exactly
\* when the verb rules hold; validStem(stem, "noun", prefix) is true exactly
\* when the stem is not empty and has fewer than 8 characters.
C21_ValidStemRules ==
    call.fn = "validStem" =>
        LET stem == call.args[1]
            tag == call.args[2]
            prefix == call.args[3]
        IN  call.ret = IF tag = "verb" THEN VerbRules(stem, prefix)
                       ELSE stem # <<>> /\ Len(stem) < 8

\* C21 as stated: validStem(stem, "noun", prefix) is true exactly when the
\* stem has fewer than 8 characters (the verb half as above).
C21_AsStated ==
    call.fn = "validStem" =>
        LET stem == call.args[1]
            tag == call.args[2]
            prefix == call.args[3]
        IN  call.ret = IF tag = "verb" THEN VerbRules(stem, prefix)
                       ELSE Len(stem) < 8

\* C21 witness: validStem has refused the empty stem as a noun.
C21_Witness ==
    /\ call.fn = "validStem"
    /\ call.args[1] = <<>>
    /\ call.args[2] = "noun"
    /\ call.ret = FALSE

\* C22: after SetMinStemLength(n), every pair (l, r) of the list segment
\* builds has r - l >= n, and a stem LightStem gets by stripping an accepted
\* affix has at least n characters.
C22_MinStemLengthRespected ==
    (pc # "idle" /\ op = "LightStem" /\ ~ReturnsEarly(word) /\ ~seg.panic) =>
        /\ \A p \in Pairs(seg.segmentList) : p[2] - p[1] >= minStemLength
        /\ (pc = "done" /\ result.kind = "ok" /\ result.accepted # {}) =>
              Len(result.val) >= minStemLength

C24_ChooseRootTerminates ==
    (pc = "done" /\ op = "chooseRoot")
        => /\ result.kind # "diverge"
           /\ (~IsStopword(word) /\ ~seg.panic /\ ~stars.panic /\ DOMAIN seg.segmentList # {})
                  => (result.kind = "ok" /\ result.via = "root")


\* the number of letters of a root, counted in characters
Letters(root) == Len(root)

\* C25: when the candidate roots handed to the filtering of chooseRoot hold
\* a root of 2, 3 or 4 letters, the root returned has 2, 3 or 4 letters,
\* counted in characters.
C25_RootLengthInCharacters ==
    (pc = "done" /\ call.fn = "chooseRoot")
        => LET roots == call.args[1]
           IN  (\E i \in 1..Len(roots) : Letters(roots[i]) \in 2..4)
                  => Letters(call.ret) \in 2..4


\* no candidate passes a filter, whether its length is taken in characters or in bytes
NonePasses(roots) ==
    \A i \in 1..Len(roots) :
        /\ ~IsRoot(roots[i])
        /\ ~isRootLengthValid(roots[i])
        /\ Letters(roots[i]) \notin 2..4

\* C26: when no candidate passes the length filter or the dictionary filter, the
\* filtering of chooseRoot keeps the unfiltered candidates: it returns one of
\* them, and the empty string only when it is given no candidate.
C26_FallsBackToAllCandidates ==
    (pc = "done" /\ call.fn = "chooseRoot" /\ NonePasses(call.args[1]))
        => IF call.args[1] = <<>> THEN call.ret = <<>>
           ELSE call.ret \in ToSet(call.args[1])

\* C26 as the specification words it: when no candidate passes the length
\* and dictionary filter, chooseRoot returns the empty string.
C26_AsStated ==
    (pc = "done" /\ call.fn = "chooseRoot" /\ NonePasses(call.args[1]))
        => call.ret = <<>>

\* candidates of five letters, none in the dictionary, and one of them returned
C26_Witness ==
    /\ pc = "done"
    /\ call.fn = "chooseRoot"
    /\ NonePasses(call.args[1])
    /\ Len(call.args[1]) > 1
    /\ call.ret # <<>>


\* the elements of lst that no other element outnumbers
MostFrequent(lst) == {x \in ToSet(lst) : \A y \in ToSet(lst) : Count(lst, y) <= Count(lst, x)}

\* among them the roots of exactly three letters, if there is one
Preferred(lst) ==
    IF \E x \in MostFrequent(lst) : Letters(x) = 3
    THEN {x \in MostFrequent(lst) : Letters(x) = 3}
    ELSE MostFrequent(lst)

\* C27: mostCommon(lst) returns the most frequent element of lst; among equally
\* frequent elements it prefers those of exactly three letters, and the
\* smallest in lexicographic order of what remains; for the empty list it
\* returns the empty string.
C27_MostFrequentThenThreeLetters ==
    (pc = "done" /\ call.fn = "mostCommon")
        => LET lst == call.args[1]
           IN  IF lst = <<>> THEN call.ret = <<>>
               ELSE /\ call.ret \in Preferred(lst)
                    /\ \A y \in Preferred(lst) : y = call.ret \/ StringLess(call.ret, y)


\* the documented normalization of one letter of a stem
DocumentedLetter(c) ==
    CASE c = ALEF_MADDA -> <<HAMZA, ALEF>>
      [] c = TEH_MARBUTA -> <<>>
      [] c = ALEF_MAKSURA -> <<YEH>>
      [] c \in {ALEF_HAMZA_ABOVE, ALEF_HAMZA_BELOW} -> <<ALEF>>
      [] c \in {WAW_HAMZA, YEH_HAMZA} -> <<HAMZA>>
      [] OTHER -> <<c>>

RECURSIVE Documented(_)
Documented(stem) ==
    IF stem = <<>> THEN <<>> ELSE DocumentedLetter(Head(stem)) \o Documented(Tail(stem))

\* the stem of a call of extractRoot or getRoot: unvocalized[prefixIndex:suffixIndex]
CallStem == Slice(StripTashkeel(call.args[1]), call.args[3], call.args[4])

\* C28: for every stem of exactly three letters extractRoot returns the stem
\* with the documented normalizations and no other letter changed, and
\* getRoot, given an index, returns the root that extractRoot extracts.
C28_ThreeLetterStemIsItsRoot ==
    (pc = "done" /\ call.fn \in {"extractRoot", "getRoot"} /\ Len(CallStem) = RootLetters)
        => /\ call.fn = "extractRoot" => call.ret = Documented(CallStem)
           /\ call.fn = "getRoot"
                 => call.ret = extractRoot(call.args[1], StripTashkeel(call.args[1]), call.args[2],
                                           -1, -1, -1, -1, call.args[3], call.args[4])


\* the verb after diacritic stripping, Hamza unification and weak-letter removal
BeforeCollapse(verb) ==
    LET v1 == StripTashkeel(verb)
        v2 == IF ByteLen(v1) = 4 /\ HasPrefix(v1, <<ALEF_HAMZA_ABOVE>>) THEN Tail(v1) ELSE v1
    IN  removeWeakLetters(normalizeHamza(v2))

\* its last two letters are the same letter
DoubledAtEnd(s) == Len(s) >= 2 /\ s[Len(s)] = s[Len(s) - 1]

\* C29: for every verb whose last two letters, after diacritic stripping, Hamza
\* unification and weak-letter removal, are the same letter, Normalize ends with
\* one occurrence of it, and IsVerbStamp answers alike for a stem written with
\* and without the doubled final letter, also for letters of two bytes.
C29_DoubledFinalLetterCollapsed ==
    (pc = "done" /\ call.fn \in {"Normalize", "IsVerbStamp"}
                 /\ DoubledAtEnd(BeforeCollapse(call.args[1])))
        => LET pre == BeforeCollapse(call.args[1])
               single == SubSeq(pre, 1, Len(pre) - 1)
           IN  /\ call.fn = "Normalize" => call.ret = single
               /\ call.fn = "IsVerbStamp" => call.ret = IsVerbStamp(single)

====
